---------------------------- MODULE Spec2Model ----------------------------
(***************************************************************************)
(* The agent control loop of simple-agent (crates/agent): main's select    *)
(* over run_agent and the two signal streams, run_agent's                  *)
(* send -> parse -> execute -> encode loop, and the response parser.       *)
(*                                                                         *)
(* Text is a sequence of one-character strings, so that trimming and       *)
(* prefix/suffix stripping are computed character by character.            *)
(***************************************************************************)
EXTENDS Integers, Sequences, FiniteSets, TLC

(***************************************************************************)
(* Bounds of the model.                                                    *)
(***************************************************************************)
\* The loop is unbounded in the code; the model stops issuing sends after
\* this many turns.
MaxTurns == 3

(***************************************************************************)
(* Text helpers (Rust's str methods used by run.rs).                       *)
(***************************************************************************)
\* u8::is_ascii_whitespace: space, tab, line feed, form feed, carriage return
IsAsciiWhitespace(c) == c \in {" ", "\t", "\n", "\f", "\r"}

RECURSIVE trim_ascii_start(_)
trim_ascii_start(s) ==
    IF s = <<>> THEN <<>>
    ELSE IF IsAsciiWhitespace(Head(s)) THEN trim_ascii_start(Tail(s))
    ELSE s

RECURSIVE trim_ascii_end(_)
trim_ascii_end(s) ==
    IF s = <<>> THEN <<>>
    ELSE IF IsAsciiWhitespace(s[Len(s)]) THEN trim_ascii_end(SubSeq(s, 1, Len(s) - 1))
    ELSE s

starts_with(s, p) == Len(p) <= Len(s) /\ SubSeq(s, 1, Len(p)) = p

ends_with(s, p) == Len(p) <= Len(s) /\ SubSeq(s, Len(s) - Len(p) + 1, Len(s)) = p

\* content.strip_prefix(p).unwrap_or(content)
strip_prefix_or(s, p) == IF starts_with(s, p) THEN SubSeq(s, Len(p) + 1, Len(s)) ELSE s

\* content.strip_suffix(p).unwrap_or(content)
strip_suffix_or(s, p) == IF ends_with(s, p) THEN SubSeq(s, 1, Len(s) - Len(p)) ELSE s

(***************************************************************************)
(* Literals of the source.                                                 *)
(***************************************************************************)
STOP == <<"S", "T", "O", "P">>
\* The backtick character (written by name: it cannot appear in a TLA+ string).
BT == "BACKTICK"
FenceYaml == <<BT, BT, BT, "y", "a", "m", "l">>
FenceYml == <<BT, BT, BT, "y", "m", "l">>
FenceClose == <<BT, BT, BT>>
KeyThoughts == <<"t", "h", "o", "u", "g", "h", "t", "s", ":", " ">>
KeyRun == <<"r", "u", "n", ":", " ">>
NL == <<"\n">>

(***************************************************************************)
(* serde_yml::from_str::<Response>, on the documents the model draws:      *)
(* block mappings of one "key: value" entry per line, whose values are a   *)
(* flow sequence of plain scalars (thoughts) and a plain or double-quoted  *)
(* scalar (run), and plain one-line scalars (not a mapping).               *)
(***************************************************************************)
Positions(s, c) == {k \in 1..Len(s) : s[k] = c}

Min(S) == CHOOSE x \in S : \A y \in S : x <= y

RECURSIVE SplitOn(_, _)
SplitOn(s, c) ==
    IF Positions(s, c) = {} THEN <<s>>
    ELSE LET k == Min(Positions(s, c))
         IN <<SubSeq(s, 1, k - 1)>> \o SplitOn(SubSeq(s, k + 1, Len(s)), c)

\* A plain scalar has no surrounding blanks; a double-quoted one keeps them.
Scalar(v) ==
    LET t == trim_ascii_end(trim_ascii_start(v))
    IN IF Len(t) >= 2 /\ t[1] = "\"" /\ t[Len(t)] = "\"" THEN SubSeq(t, 2, Len(t) - 1)
       ELSE t

IsFlowSeq(v) ==
    LET t == trim_ascii_end(trim_ascii_start(v))
    IN Len(t) >= 2 /\ t[1] = "[" /\ t[Len(t)] = "]"

FlowSeq(v) ==
    LET t == trim_ascii_end(trim_ascii_start(v))
        inner == trim_ascii_end(trim_ascii_start(SubSeq(t, 2, Len(t) - 1)))
        items == SplitOn(inner, ",")
    IN IF inner = <<>> THEN <<>>
       ELSE [k \in 1..Len(items) |-> Scalar(items[k])]

ParseOk(thoughts, run) == [ok |-> TRUE, thoughts |-> thoughts, run |-> run, err |-> ""]

ParseErr(err) == [ok |-> FALSE, thoughts |-> <<>>, run |-> <<>>, err |-> err]

from_str(content) ==
    LET doc == trim_ascii_end(trim_ascii_start(content))
        lines == SplitOn(doc, "\n")
        tl == {k \in 1..Len(lines) : starts_with(lines[k], KeyThoughts)}
        rl == {k \in 1..Len(lines) : starts_with(lines[k], KeyRun)}
        other == (1..Len(lines)) \ (tl \cup rl)
        tv == SubSeq(lines[Min(tl)], Len(KeyThoughts) + 1, Len(lines[Min(tl)]))
        rv == SubSeq(lines[Min(rl)], Len(KeyRun) + 1, Len(lines[Min(rl)]))
    IN IF doc = <<>> THEN ParseErr("EOF while parsing a value")
       ELSE IF other # {} THEN
            IF Len(lines) = 1 THEN ParseErr("invalid type: string, expected struct Response")
            ELSE ParseErr("could not find expected ':'")
       ELSE IF Cardinality(tl) > 1 \/ Cardinality(rl) > 1 THEN ParseErr("duplicate entry")
       ELSE IF tl = {} THEN ParseErr("missing field thoughts")
       ELSE IF ~IsFlowSeq(tv) THEN ParseErr("thoughts: invalid type: string, expected a sequence")
       ELSE IF rl = {} THEN ParseErr("missing field run")
       ELSE ParseOk(FlowSeq(tv), Scalar(rv))

(***************************************************************************)
(* run.rs: parse                                                           *)
(***************************************************************************)
parse(content) ==
    LET c0 == trim_ascii_end(trim_ascii_start(content))
        c1 == strip_prefix_or(c0, FenceYaml)
        c2 == strip_prefix_or(c1, FenceYml)
        c3 == strip_suffix_or(c2, FenceClose)
    IN from_str(c3)

\* Variant of IsStop: the command only has to begin with the sentinel.
IsStop_Prefix(run) == starts_with(trim_ascii_end(trim_ascii_start(run)), STOP)

\* response.run.trim_ascii_start().trim_ascii_end().eq("STOP")
IsStop(run) == trim_ascii_end(trim_ascii_start(run)) = STOP

(***************************************************************************)
(* Inputs of the model: what the backend may reply, and what running a     *)
(* command may produce.                                                    *)
(***************************************************************************)
Doc(runValue) == KeyThoughts \o <<"[", "a", "]">> \o NL \o KeyRun \o runValue

Fenced(open, doc) == open \o NL \o doc \o NL \o FenceClose

Ls == <<"l", "s">>
StopLower == <<"s", "t", "o", "p">>
StopPlease == STOP \o <<" ", "p", "l", "e", "a", "s", "e">>
\* run: " STOP "  (double-quoted, so the blanks belong to the command)
StopPaddedQuoted == <<"\"", " ">> \o STOP \o <<" ", "\"">>
StopPadded == <<" ">> \o STOP \o <<" ">>
\* run: " "  (double-quoted: a command of one blank)
BlankQuoted == <<"\"", " ", "\"">>

\* run: echo ```   (a plain scalar that ends with three backticks)
EchoTicks == <<"e", "c", "h", "o", " ">> \o FenceClose

\* the directive documents handed to parse on its own: every thoughts value
\* with every run value
ThoughtsValues == { <<"[", "a", "]">>, <<"[", "]">>, <<"[", "a", ",", " ", "b", "]">> }
RunValues == { Ls, STOP, StopPaddedQuoted, BlankQuoted, EchoTicks,
               <<"\"">> \o EchoTicks \o <<"\"">> }

Documents == { KeyThoughts \o t \o NL \o KeyRun \o r : t \in ThoughtsValues, r \in RunValues }

\* the ways a document is wrapped in a Markdown code fence
Wraps == {"bare", "open yaml", "open yml", "close", "both yaml", "both yml"}

Wrap(w, doc) ==
    IF w = "bare" THEN doc
    ELSE IF w = "open yaml" THEN FenceYaml \o NL \o doc
    ELSE IF w = "open yml" THEN FenceYml \o NL \o doc
    ELSE IF w = "close" THEN doc \o NL \o FenceClose
    ELSE IF w = "both yaml" THEN Fenced(FenceYaml, doc)
    ELSE Fenced(FenceYml, doc)

ParseInputs == { Wrap(w, d) : w \in Wraps, d \in Documents }

Replies ==
    { Doc(STOP),
      Doc(StopPaddedQuoted),
      Doc(StopLower),
      Doc(StopPlease),
      Doc(Ls),
      Doc(BlankQuoted),
      Fenced(FenceYaml, Doc(Ls)),
      Fenced(FenceYml, Doc(STOP)),
      <<"h", "i">>,
      KeyRun \o Ls }

\* Option<i32>
None == [some |-> FALSE, val |-> 0]
Some(v) == [some |-> TRUE, val |-> v]

\* std::process::Output: captured bytes and the exit status's code()
\* (absent when the child was killed by a signal).  255 is a byte that no
\* UTF-8 text contains.
Outputs ==
    { [stdout |-> <<104, 105, 10>>, stderr |-> <<>>, code |-> Some(0)],
      [stdout |-> <<>>, stderr |-> <<104, 105, 10>>, code |-> Some(1)],
      [stdout |-> <<>>, stderr |-> <<>>, code |-> None],
      [stdout |-> <<104, 255>>, stderr |-> <<>>, code |-> Some(0)],
      [stdout |-> <<>>, stderr |-> <<255>>, code |-> Some(0)] }

\* String::from_utf8 on byte strings made of ASCII bytes and the byte 255.
Utf8Valid(bytes) == \A k \in 1..Len(bytes) : bytes[k] < 128

Chr(b) == IF b = 104 THEN "h" ELSE IF b = 105 THEN "i" ELSE IF b = 10 THEN "\n" ELSE "?"

from_utf8(bytes) == [k \in 1..Len(bytes) |-> Chr(bytes[k])]

\* io::Error descriptions of a failed spawn / failed wait
IoErrors == { <<"No such file or directory (os error 2)">> }

Backends == {"Ollama", "OpenRouter"}

\* the contents of the system prompt file
SystemPrompts == { <<"s", "y", "s">>, <<"b", "e", "\n">> }

\* uuid::Uuid::new_v4().to_string()
ChatIds == {"uuid-1", "uuid-2"}

\* main.rs 216-219: the task template names one variable, task, and the
\* escape function is the identity, so the task text is inserted verbatim
TaskVariable == "{{task}}"
TaskTemplate == <<"D", "o", ":", " ", TaskVariable, "\n">>
Task == <<"l", "s", " ", "<", "a", ">", " ", "&">>

RECURSIVE render_template(_, _)
render_template(template, task) ==
    IF template = <<>> THEN <<>>
    ELSE (IF Head(template) = TaskVariable THEN task ELSE <<Head(template)>>)
         \o render_template(Tail(template), task)

\* the template-expanded task text
TaskMessage == render_template(TaskTemplate, Task)

(***************************************************************************)
(* ollama.rs, openrouter.rs, providers.rs: render and send.  A request is  *)
(* what send hands to the client library: the session identity ("none"     *)
(* when the call carries none) and the list of chat messages.              *)
(***************************************************************************)
\* Variant of Ollama_render: the prompt and the message are joined directly.
Ollama_render_NoNewline(system, msg) == system \o msg

\* ollama.rs 44-46
Ollama_render(system, msg) == system \o <<"\n">> \o msg

\* openrouter.rs 43-45
OpenRouter_render(system, msg) == system \o <<"\n">> \o msg

\* providers.rs 22-29
ChatProviders_render(variant, system, msg) ==
    IF variant = "Ollama" THEN Ollama_render(system, msg)
    ELSE OpenRouter_render(system, msg)

\* Variant of Ollama_send: each call makes up a session identity of its own.
Ollama_send_FreshId(system, id, msg) ==
    [chat_id |-> CHOOSE x \in ChatIds : x # id,
     messages |-> << [role |-> "user", content |-> Ollama_render(system, msg)] >>]

\* ollama.rs 27-37: one user message, sent with the provider's chat_id
Ollama_send(system, id, msg) ==
    [chat_id |-> id,
     messages |-> << [role |-> "user", content |-> Ollama_render(system, msg)] >>]

\* openrouter.rs 24-35: one user message, no session
OpenRouter_send(system, msg) ==
    [chat_id |-> "none",
     messages |-> << [role |-> "user", content |-> OpenRouter_render(system, msg)] >>]

\* providers.rs 13-20
ChatProviders_send(variant, system, id, msg) ==
    IF variant = "Ollama" THEN Ollama_send(system, id, msg)
    ELSE OpenRouter_send(system, msg)

NoRequest == [chat_id |-> "none", messages |-> <<>>]

(***************************************************************************)
(* main.rs 207-248: what setup reads, in the order it reads it; what it    *)
(* does not get to read is "unread".                                       *)
(***************************************************************************)
InputStates == {"ok", "task unreadable", "system unreadable", "template unreadable",
                "template malformed"}

SetupSeen(command, inputs, list, listed, key, client) ==
    LET o == command = "Ollama" /\ inputs = "ok"
        r == command = "OpenRouter" /\ inputs = "ok"
    IN [command |-> command,
        inputs |-> inputs,
        list |-> IF o THEN list ELSE "unread",
        listed |-> IF o /\ list = "ok" THEN listed ELSE "unread",
        key |-> IF r THEN key ELSE "unread",
        client |-> IF r /\ key = "present" THEN client ELSE "unread"]

NothingSeen ==
    [command |-> "unread", inputs |-> "unread", list |-> "unread", listed |-> "unread",
     key |-> "unread", client |-> "unread"]

\* Variant of SetupError: the model list and the API key are not looked at.
SetupError_Unchecked(seen) ==
    IF seen.inputs = "task unreadable" THEN "failed to read task"
    ELSE IF seen.inputs = "system unreadable" THEN "failed to read system"
    ELSE IF seen.inputs = "template unreadable" THEN "failed to read template"
    ELSE IF seen.inputs = "template malformed" THEN "template render error"
    ELSE IF seen.list = "unreachable"
    THEN "couldn't list available models, is Ollama running and reachable?"
    ELSE IF seen.client = "failed" THEN "couldn't build OpenRouter client"
    ELSE ""

\* the error setup returns, "" when it returns none
SetupError(seen) ==
    IF seen.inputs = "task unreadable" THEN "failed to read task"
    ELSE IF seen.inputs = "system unreadable" THEN "failed to read system"
    ELSE IF seen.inputs = "template unreadable" THEN "failed to read template"
    ELSE IF seen.inputs = "template malformed" THEN "template render error"
    ELSE IF seen.command = "Ollama" THEN
        IF seen.list = "unreachable"
        THEN "couldn't list available models, is Ollama running and reachable?"
        ELSE IF seen.listed = "no" THEN "model not found"
        ELSE ""
    ELSE IF seen.key = "absent" THEN "OPENROUTER_API_KEY not found in environment"
    ELSE IF seen.client = "failed" THEN "couldn't build OpenRouter client"
    ELSE ""

SetupInputs ==
    { SetupSeen(c, f, l, m, k, b) :
        c \in Backends, f \in InputStates, l \in {"ok", "unreachable"},
        m \in {"yes", "no"}, k \in {"present", "absent"}, b \in {"built", "failed"} }

(***************************************************************************)
(* run.rs: CommandOutput and its encoding (serde_yml::to_string).          *)
(* Scalars are written double-quoted; the fields come in declaration       *)
(* order.                                                                  *)
(***************************************************************************)
CommandOutput(stdout, stderr, exit_code) ==
    [stdout |-> stdout, stderr |-> stderr, exit_code |-> exit_code]

YamlString(t) == <<"\"">> \o t \o <<"\"">>

YamlInt(n) == IF n = 0 THEN <<"0">> ELSE IF n = 1 THEN <<"1">> ELSE <<"n">>

YamlOptInt(c) == IF c.some THEN YamlInt(c.val) ELSE <<"n", "u", "l", "l">>

\* Variant of to_string: the exit code is written first.
to_string_ExitCodeFirst(o) ==
    <<"e", "x", "i", "t", "_", "c", "o", "d", "e", ":", " ">> \o YamlOptInt(o.exit_code) \o NL
    \o <<"s", "t", "d", "o", "u", "t", ":", " ">> \o YamlString(o.stdout) \o NL
    \o <<"s", "t", "d", "e", "r", "r", ":", " ">> \o YamlString(o.stderr) \o NL

to_string(o) ==
    <<"s", "t", "d", "o", "u", "t", ":", " ">> \o YamlString(o.stdout) \o NL
    \o <<"s", "t", "d", "e", "r", "r", ":", " ">> \o YamlString(o.stderr) \o NL
    \o <<"e", "x", "i", "t", "_", "c", "o", "d", "e", ":", " ">> \o YamlOptInt(o.exit_code) \o NL

ErrorParsingResponse == <<"Error parsing response">>
ErrorTryingToRunCommand == <<"Error trying to run command">>

(***************************************************************************)
(* State.                                                                  *)
(***************************************************************************)
VARIABLES
    pc,          \* where the run_agent future is suspended:
                 \* "setup", "send", "exec"; "returned"; "dropped"
    setupSeen,   \* what setup read of its inputs
    backend,     \* the ChatProviders variant built by setup ("none" before)
    system_prompt, \* the provider's system_prompt (<<>> before setup)
    chat_id,     \* the Ollama provider's chat_id ("none" when there is none)
    i,           \* the turn counter
    message,     \* the message variable of the loop
    sends,       \* number of chat_provider.send calls issued
    request,     \* the request handed to the client library by the last send
    response,    \* the last reply returned by send (<<>> before the first)
    replies,     \* number of replies returned by send
    parsed,      \* the result of the last call of parse
    echoed,      \* number of "## Response" echoes on the console
    executed,    \* the commands for which a bash process was started
    running,     \* TRUE while the last started process is awaited
    waited,      \* number of cmd.output() futures that completed
    started,     \* TRUE once a bash process was started in the current turn
    output,      \* the last std::process::Output returned by cmd.output()
    outcome,     \* the last CommandOutput built
    nOutcomes,   \* number of CommandOutput values built
    encoded,     \* number of serde_yml::to_string calls
    result,      \* what run_agent returned: "pending", "Ok", "Err"
    error,       \* the error run_agent returned ("" when none)
    event,       \* what the last step reacted to
    signals,     \* signals delivered to the process and not yet observed
    proc,        \* "running" or "exited"
    exitStatus,  \* the process exit status (-1 while running)
    notice,      \* the shutdown notice printed on stderr ("" when none)
    finished     \* TRUE once "***Agent finished***" is printed

vars == <<pc, setupSeen, backend, system_prompt, chat_id, i, message, sends, request,
          response, replies, parsed, echoed, executed, running, waited, started,
          output, outcome, nOutcomes, encoded, result, error, event, signals, proc,
          exitStatus, notice, finished>>

\* what setup builds
providerVars == <<setupSeen, backend, system_prompt, chat_id>>

\* what run_agent's loop owns or causes
loopVars == <<i, message, sends, request, response, replies, parsed, echoed, executed,
              running, waited, started, output, outcome, nOutcomes, encoded>>

\* what main owns
mainVars == <<result, error, proc, exitStatus, notice, finished>>

NotParsed == ParseErr("not parsed")

\* everything but pc and response
InitRest ==
    /\ setupSeen = NothingSeen
    /\ backend = "none"
    /\ system_prompt = <<>>
    /\ chat_id = "none"
    /\ i = 0
    /\ message = <<>>
    /\ sends = 0
    /\ request = NoRequest
    /\ replies = 0
    /\ parsed = NotParsed
    /\ echoed = 0
    /\ executed = <<>>
    /\ running = FALSE
    /\ waited = 0
    /\ started = FALSE
    /\ output = [stdout |-> <<>>, stderr |-> <<>>, code |-> None]
    /\ outcome = CommandOutput(<<>>, <<>>, None)
    /\ nOutcomes = 0
    /\ encoded = 0
    /\ result = "pending"
    /\ error = ""
    /\ event = "start"
    /\ signals = {}
    /\ proc = "running"
    /\ exitStatus = -1
    /\ notice = ""
    /\ finished = FALSE

Init ==
    /\ pc = "setup"
    /\ response = <<>>
    /\ InitRest

(***************************************************************************)
(* Pieces of run_agent and main shared by the actions.                     *)
(***************************************************************************)
\* Variant of IssueSendBy: the counter is incremented after the send, so it
\* labels the first request 0.
IssueSendBy_CountFromZero(variant, system, id, msg) ==
    /\ sends < MaxTurns
    /\ i' = sends
    /\ message' = msg
    /\ sends' = sends + 1
    /\ request' = ChatProviders_send(variant, system, id, msg)
    /\ started' = FALSE
    /\ pc' = "send"

\* run.rs 10-11: i += 1; chat_provider.send(&message) is issued and awaited
IssueSendBy(variant, system, id, msg) ==
    /\ i < MaxTurns
    /\ i' = i + 1
    /\ message' = msg
    /\ sends' = sends + 1
    /\ request' = ChatProviders_send(variant, system, id, msg)
    /\ started' = FALSE
    /\ pc' = "send"

IssueSend(msg) == IssueSendBy(backend, system_prompt, chat_id, msg)

\* Variant of Continue: the outcome is built but the old message is sent
\* again instead of its encoding.
Continue_SkipEncode(o) ==
    /\ outcome' = o
    /\ nOutcomes' = nOutcomes + 1
    /\ encoded' = encoded
    /\ IssueSend(message)

\* run.rs 59-69: a Some(output) is encoded into the next message and the
\* loop goes round to the next send
Continue(o) ==
    /\ outcome' = o
    /\ nOutcomes' = nOutcomes + 1
    /\ encoded' = encoded + 1
    /\ IssueSend(to_string(o))

\* Variant of ReturnOk: the result is Ok but the loop is not left.
ReturnOk_NoBreak ==
    /\ result' = "Ok"
    /\ error' = ""
    /\ UNCHANGED <<pc, finished, proc, exitStatus, notice>>

\* main.rs 77-81, 90-91: run_agent returned Ok(()); main prints the last
\* line and returns Ok(()), which is exit status 0
ReturnOk ==
    /\ pc' = "returned"
    /\ result' = "Ok"
    /\ error' = ""
    /\ finished' = TRUE
    /\ proc' = "exited"
    /\ exitStatus' = 0
    /\ UNCHANGED notice

\* Variant of ReturnErr: main reports the error and still returns Ok(()).
ReturnErr_ExitZero(e) ==
    /\ pc' = "returned"
    /\ result' = "Err"
    /\ error' = e
    /\ proc' = "exited"
    /\ exitStatus' = 0
    /\ UNCHANGED <<notice, finished>>

\* main.rs 77-80: run_agent returned Err(e); main bails, which is exit
\* status 1
ReturnErr(e) ==
    /\ pc' = "returned"
    /\ result' = "Err"
    /\ error' = e
    /\ proc' = "exited"
    /\ exitStatus' = 1
    /\ UNCHANGED <<notice, finished>>

\* Variant of OnParseError: the parse error is returned with ?.
OnParseError_Abort(res) ==
    /\ event' = "reply"
    /\ ReturnErr(res.err)
    /\ UNCHANGED <<i, message, sends, request, executed, running, started, outcome,
                   nOutcomes, encoded>>

\* Variant of OnParseError: the text that did not parse is run as a command.
OnParseError_RunsReply(res) ==
    /\ event' = "reply"
    /\ started' = TRUE
    /\ executed' = Append(executed, response')
    /\ running' = TRUE
    /\ pc' = "exec"
    /\ UNCHANGED <<i, message, sends, request, outcome, nOutcomes, encoded>>
    /\ UNCHANGED mainVars

\* run.rs 48-57: the reply did not parse
OnParseError(res) ==
    /\ event' = "reply"
    /\ Continue(CommandOutput(ErrorParsingResponse, <<res.err>>, None))
    /\ UNCHANGED <<executed, running>>
    /\ UNCHANGED mainVars

\* Variant of OnStop: no sentinel check, the text goes to bash like any
\* other command.
OnStop_RunSentinel ==
    /\ event' = "reply"
    /\ started' = TRUE
    /\ executed' = Append(executed, STOP)
    /\ running' = TRUE
    /\ pc' = "exec"
    /\ UNCHANGED <<i, message, sends, request, outcome, nOutcomes, encoded>>
    /\ UNCHANGED mainVars

\* run.rs 17-18, 59-61, 70: the command is the sentinel; break, Ok(())
OnStop ==
    /\ event' = "reply"
    /\ ReturnOk
    /\ UNCHANGED <<i, message, sends, request, executed, running, started, outcome,
                   nOutcomes, encoded>>

\* Variant of OnSpawnError: the io::Error is returned with ?.
OnSpawnError_Abort(err) ==
    /\ ReturnErr("io error")
    /\ UNCHANGED <<i, message, sends, request, started, outcome, nOutcomes, encoded>>

\* run.rs 35-44: cmd.output() gave Err(err)
OnSpawnError(err) ==
    /\ Continue(CommandOutput(ErrorTryingToRunCommand, err, None))
    /\ UNCHANGED mainVars

\* Variant of OnCommand: the process is started and the loop goes round
\* without waiting for it.
OnCommand_NoWait(run) ==
    /\ event' = "reply"
    /\ executed' = Append(executed, run)
    /\ running' = TRUE
    /\ Continue(CommandOutput(<<>>, <<>>, None))
    /\ UNCHANGED mainVars

\* run.rs 20-23: bash -c <run>; the process starts and the future waits for
\* it, or it cannot be started
OnCommand(run) ==
    \/ /\ event' = "reply"
       /\ started' = TRUE
       /\ executed' = Append(executed, run)
       /\ running' = TRUE
       /\ pc' = "exec"
       /\ UNCHANGED <<i, message, sends, request, outcome, nOutcomes, encoded>>
       /\ UNCHANGED mainVars
    \/ /\ event' = "reply_spawn_err"
       /\ \E err \in IoErrors : OnSpawnError(err)
       /\ UNCHANGED <<executed, running>>

\* Variant of OnOutput: undecodable bytes are replaced and the loop goes on.
OnOutput_Lossy(out) ==
    /\ Continue(CommandOutput(from_utf8(out.stdout), from_utf8(out.stderr), out.code))
    /\ UNCHANGED mainVars

\* Variant of OnOutput: a non-zero exit code is returned as an error.
OnOutput_NonZeroIsError(out) ==
    IF Utf8Valid(out.stdout) /\ Utf8Valid(out.stderr) /\ out.code \in {None, Some(0)} THEN
        /\ Continue(CommandOutput(from_utf8(out.stdout), from_utf8(out.stderr), out.code))
        /\ UNCHANGED mainVars
    ELSE
        /\ ReturnErr("command failed")
        /\ UNCHANGED <<i, message, sends, request, started, outcome, nOutcomes, encoded>>

\* run.rs 24-34: the child's output; both streams must decode as UTF-8
OnOutput(out) ==
    IF Utf8Valid(out.stdout) /\ Utf8Valid(out.stderr) THEN
        /\ Continue(CommandOutput(from_utf8(out.stdout), from_utf8(out.stderr), out.code))
        /\ UNCHANGED mainVars
    ELSE
        /\ ReturnErr("invalid utf-8 sequence")
        /\ UNCHANGED <<i, message, sends, request, started, outcome, nOutcomes, encoded>>

(***************************************************************************)
(* Actions.  Each is one poll of the run_agent future, from the completion *)
(* of the awaited operation to the next await or to the return, or one     *)
(* branch of main's select.                                                *)
(***************************************************************************)
\* main.rs 207-259: inputs read, provider built, first send issued
SetupOk ==
    /\ proc = "running" /\ pc = "setup"
    /\ event' = "setup_ok"
    /\ \E seen \in SetupInputs, system \in SystemPrompts, id \in ChatIds :
        /\ SetupError(seen) = ""
        /\ setupSeen' = seen
        /\ backend' = seen.command
        /\ system_prompt' = system
        /\ chat_id' = IF seen.command = "Ollama" THEN id ELSE "none"
        /\ IssueSendBy(backend', system_prompt', chat_id', TaskMessage)
    /\ UNCHANGED <<response, replies, parsed, echoed, executed, running, waited, output,
                   outcome, nOutcomes, encoded, signals>>
    /\ UNCHANGED mainVars

\* main.rs 207-248: unreadable input, model not listed, missing API key
SetupErr ==
    /\ proc = "running" /\ pc = "setup"
    /\ event' = "setup_err"
    /\ \E seen \in SetupInputs :
        /\ SetupError(seen) # ""
        /\ setupSeen' = seen
        /\ ReturnErr(SetupError(seen))
    /\ UNCHANGED <<backend, system_prompt, chat_id, signals>>
    /\ UNCHANGED loopVars

\* Variant of SendErr: the failed send is issued again.
SendErr_Retry ==
    /\ proc = "running" /\ pc = "send"
    /\ event' = "send_err"
    /\ sends' = sends + 1
    /\ UNCHANGED <<pc, signals, i, message, request, response, replies, parsed, echoed,
                   executed, running, waited, started, output, outcome, nOutcomes,
                   encoded>>
    /\ UNCHANGED providerVars
    /\ UNCHANGED mainVars

\* run.rs 11: send returned Err; the ? returns it from run_agent
SendErr ==
    /\ proc = "running" /\ pc = "send"
    /\ event' = "send_err"
    /\ ReturnErr("backend error")
    /\ UNCHANGED signals
    /\ UNCHANGED providerVars
    /\ UNCHANGED loopVars

\* run.rs 11-22 and 48-69: send returned Ok(response); it is echoed and
\* parsed, and the directive is handled up to the next await
SendOk ==
    /\ proc = "running" /\ pc = "send"
    /\ \E reply \in Replies :
        /\ response' = reply
        /\ replies' = replies + 1
        /\ echoed' = echoed + 1
        /\ parsed' = parse(reply)
        /\ IF ~parsed'.ok THEN OnParseError(parsed')
           ELSE IF IsStop(parsed'.run) THEN OnStop
           ELSE OnCommand(parsed'.run)
    /\ UNCHANGED <<waited, output, signals>>
    /\ UNCHANGED providerVars

\* run.rs 23-34 and 59-69: cmd.output() returned Ok(output)
ExecDone ==
    /\ proc = "running" /\ pc = "exec"
    /\ event' = "exec_output"
    /\ running' = FALSE
    /\ waited' = waited + 1
    /\ \E out \in Outputs :
        /\ output' = out
        /\ OnOutput(out)
    /\ UNCHANGED <<response, replies, parsed, echoed, executed, signals>>
    /\ UNCHANGED providerVars

\* run.rs 35-44: cmd.output() returned Err after the child was started
ExecErr ==
    /\ proc = "running" /\ pc = "exec"
    /\ event' = "exec_err"
    /\ running' = FALSE
    /\ waited' = waited + 1
    /\ \E err \in IoErrors : OnSpawnError(err)
    /\ UNCHANGED <<response, replies, parsed, echoed, executed, output, signals>>
    /\ UNCHANGED providerVars

\* The operating system delivers SIGTERM or SIGINT to the process.
Deliver ==
    /\ proc = "running"
    /\ event' = "signal"
    /\ \E sig \in {"SIGTERM", "SIGINT"} :
        /\ sig \notin signals
        /\ signals' = signals \cup {sig}
    /\ UNCHANGED pc
    /\ UNCHANGED providerVars
    /\ UNCHANGED loopVars
    /\ UNCHANGED mainVars

\* Variant of Cancel: the notice is printed but the run_agent future is
\* kept and polled again.
Cancel_KeepsRunning ==
    /\ proc = "running" /\ pc \in {"setup", "send", "exec"}
    /\ event' = "cancel"
    /\ \E sig \in signals :
        /\ notice' = sig
        /\ signals' = signals \ {sig}
    /\ UNCHANGED <<pc, result, error, finished, proc, exitStatus>>
    /\ UNCHANGED providerVars
    /\ UNCHANGED loopVars

\* main.rs 82-91: a signal branch of the select completes while run_agent
\* is suspended; the run_agent future is dropped, the notice and the last
\* line are printed and main returns Ok(())
Cancel ==
    /\ proc = "running" /\ pc \in {"setup", "send", "exec"}
    /\ event' = "cancel"
    /\ \E sig \in signals :
        /\ notice' = sig
        /\ signals' = signals \ {sig}
    /\ pc' = "dropped"
    /\ finished' = TRUE
    /\ proc' = "exited"
    /\ exitStatus' = 0
    /\ UNCHANGED <<result, error>>
    /\ UNCHANGED providerVars
    /\ UNCHANGED loopVars

Next ==
    \/ SetupOk
    \/ SetupErr
    \/ SendErr
    \/ SendOk
    \/ ExecDone
    \/ ExecErr
    \/ Deliver
    \/ Cancel

Spec == Init /\ [][Next]_vars

(***************************************************************************)
(* parse on its own, as run.rs 100-162 calls it: one text in, one result.  *)
(***************************************************************************)
ParseInit ==
    /\ pc = "test"
    /\ response \in ParseInputs
    /\ InitRest

ParseCall ==
    /\ pc = "test"
    /\ pc' = "tested"
    /\ event' = "parse"
    /\ parsed' = parse(response)
    /\ UNCHANGED <<i, message, sends, request, response, replies, echoed, executed,
                   running, waited, started, output, outcome, nOutcomes, encoded,
                   signals>>
    /\ UNCHANGED providerVars
    /\ UNCHANGED mainVars

ParseNext == ParseCall

ParseSpec == ParseInit /\ [][ParseNext]_vars

(***************************************************************************)
(* Properties.                                                             *)
(***************************************************************************)
\* a step in which a reply was received and handled
ReplyStep == event' \in {"reply", "reply_spawn_err"} /\ replies' = replies + 1

\* C1: when a reply parses and its command, trimmed of ASCII whitespace, is
\* STOP, run_agent returns Ok in that step: nothing is handed to a shell in
\* that turn, no outcome is built or encoded, no send is issued, and no
\* send is ever issued afterwards.
C1_StopTerminates ==
    /\ [][ ReplyStep => parsed' = parse(response') ]_vars
    /\ [][ (ReplyStep /\ parsed'.ok
             /\ trim_ascii_end(trim_ascii_start(parsed'.run)) = STOP)
           => /\ pc' = "returned" /\ result' = "Ok"
              /\ ~started' /\ executed' = executed /\ running' = running
              /\ nOutcomes' = nOutcomes /\ encoded' = encoded
              /\ sends' = sends /\ message' = message ]_vars
    /\ [][ result = "Ok" => sends' = sends /\ executed' = executed ]_vars

C1_Witness ==
    /\ result = "Ok" /\ event = "reply"
    /\ parse(response) = ParseOk(<<<<"a">>>>, STOP)
    /\ Len(executed) = 2

\* C2: when the send of turn k fails, run_agent returns the error in that
\* step: the send of turn k was the only one of the turn (sends = i = k),
\* no reply is received, echoed or parsed, no process is started in turn k,
\* and the commands started in earlier turns stay as they are.
C2_SendFailureAborts ==
    [][ event' = "send_err"
        => /\ pc = "send" /\ pc' = "returned"
           /\ result' = "Err" /\ error' = "backend error"
           /\ sends' = sends /\ sends = i /\ i' = i
           /\ replies' = replies /\ replies = i - 1 /\ echoed' = echoed
           /\ ~started' /\ executed' = executed
           /\ nOutcomes' = nOutcomes /\ encoded' = encoded ]_vars

C2_Witness ==
    /\ event = "send_err" /\ result = "Err" /\ error = "backend error"
    /\ i = 3 /\ sends = 3 /\ Len(executed) = 2

\* C3: when a reply fails to parse, the step builds the outcome
\* (stdout "Error parsing response", stderr the non-empty failure
\* description, exit_code null), encodes it, and sends the encoding as the
\* next message; run_agent does not return.
C3_ParseFailureContinues ==
    [][ (ReplyStep /\ ~parse(response').ok)
        => /\ parse(response').err # ""
           /\ outcome' = [stdout |-> <<"Error parsing response">>,
                          stderr |-> <<parse(response').err>>,
                          exit_code |-> None]
           /\ nOutcomes' = nOutcomes + 1 /\ encoded' = encoded + 1
           /\ message' = to_string(outcome')
           /\ pc' = "send" /\ sends' = sends + 1 /\ i' = i + 1
           /\ result' = "pending" /\ proc' = "running"
           /\ executed' = executed /\ ~started' ]_vars

\* two parse failures in a row, the second one answered by the third send
C3_Witness ==
    /\ event = "reply" /\ ~parse(response).ok
    /\ pc = "send" /\ i = 3 /\ nOutcomes = 2 /\ executed = <<>>
    /\ outcome.stdout = <<"Error parsing response">>
    /\ message = to_string(outcome)

\* C4: when bash cannot be started for a non-STOP command (or waiting for
\* it fails), the step builds the outcome (stdout "Error trying to run
\* command", stderr the failure description, exit_code absent), encodes it
\* and issues the next send; run_agent does not return.
C4_SpawnFailureContinues ==
    [][ event' \in {"reply_spawn_err", "exec_err"}
        => /\ outcome'.stdout = <<"Error trying to run command">>
           /\ outcome'.stderr \in IoErrors
           /\ outcome'.exit_code = None
           /\ nOutcomes' = nOutcomes + 1 /\ encoded' = encoded + 1
           /\ message' = to_string(outcome')
           /\ pc' = "send" /\ sends' = sends + 1
           /\ result' = "pending" /\ proc' = "running"
           /\ executed' = executed
           /\ (event' = "reply_spawn_err"
                 => parse(response').ok /\ ~IsStop(parse(response').run)) ]_vars

C4_Witness ==
    /\ event = "reply_spawn_err" /\ pc = "send" /\ i = 2
    /\ parse(response).run = Ls
    /\ outcome.stdout = <<"Error trying to run command">>
    /\ executed = <<>>

\* the step in which the run of a non-STOP command ends: the spawn failed,
\* or the started child was waited for
RunEndStep == event' \in {"reply_spawn_err", "exec_err", "exec_output"}

\* one outcome, one encoding, one send
OneOutcomeOneMessage ==
    /\ nOutcomes' = nOutcomes + 1
    /\ encoded' = encoded + 1
    /\ message' = to_string(outcome')
    /\ sends' = sends + 1
    /\ pc' = "send"

\* C5 as stated: every non-STOP directive is followed by exactly one
\* outcome, one encoded message and the next send, whatever the result of
\* running the command.
C5_AnyResultOneOutcome == [][ RunEndStep => OneOutcomeOneMessage ]_vars

\* C5, amended: a non-STOP directive whose process starts builds nothing
\* until the process ends; when the run ends (spawn failed, wait failed, or
\* the process finished with stdout and stderr both valid UTF-8) the step
\* builds exactly one outcome, encodes it exactly once and issues the next
\* send; when the captured output is not valid UTF-8 the loop returns an
\* error with no outcome, no encoding and no send.  While the loop runs,
\* sends, outcomes and encodings stay in step.
C5_OneOutcomeOneMessage ==
    /\ [][ (RunEndStep /\ (event' = "exec_output"
                             => \A k \in 1..Len(output'.stdout \o output'.stderr) :
                                    (output'.stdout \o output'.stderr)[k] # 255))
           => OneOutcomeOneMessage ]_vars
    /\ [][ (event' = "exec_output"
             /\ \E k \in 1..Len(output'.stdout \o output'.stderr) :
                    (output'.stdout \o output'.stderr)[k] = 255)
           => /\ nOutcomes' = nOutcomes /\ encoded' = encoded /\ sends' = sends
              /\ result' = "Err" /\ pc' = "returned" ]_vars
    /\ [][ (ReplyStep /\ event' = "reply" /\ parse(response').ok
             /\ ~IsStop(parse(response').run))
           => /\ pc' = "exec" /\ started' /\ running'
              /\ executed' = Append(executed, parse(response').run)
              /\ nOutcomes' = nOutcomes /\ encoded' = encoded /\ sends' = sends ]_vars
    /\ [][ pc' \in {"send", "exec"}
           => nOutcomes' = encoded' /\ sends' = encoded' + 1 ]_vars

C5_Witness ==
    /\ event = "exec_output" /\ pc = "send" /\ i = 2
    /\ outcome = [stdout |-> <<>>, stderr |-> <<"h", "i", "\n">>, exit_code |-> Some(1)]
    /\ nOutcomes = 1 /\ encoded = 1 /\ sends = 2

\* C6 as stated: the commands "stop", " STOP " and "STOP please" do not
\* terminate the loop.
C6_PaddedStopDoesNotTerminate ==
    (result = "Ok" /\ parse(response).ok)
        => parse(response).run \notin {StopLower, StopPadded, StopPlease}

\* C6, amended: a parsed command terminates the loop exactly when it equals
\* "STOP" once ASCII whitespace is trimmed from both ends, compared case-
\* sensitively and whole: "stop" and "STOP please" do not terminate,
\* "STOP" and " STOP " do.
C6_ExactStopAfterTrim ==
    [][ ReplyStep
        => LET r == parsed'
               run == r.run
               terminated == pc' = "returned" /\ result' = "Ok"
           IN /\ r = parse(response')
              /\ r.ok
                => /\ terminated <=> trim_ascii_end(trim_ascii_start(run)) = STOP
                   /\ run \in {STOP, StopPadded} => terminated
                   /\ run \in {StopLower, StopPlease}
                        => ~terminated /\ result' = "pending" /\ pc' \in {"exec", "send"} ]_vars

C6_Witness ==
    /\ result = "Ok" /\ pc = "returned"
    /\ parse(response).ok /\ parse(response).run = StopPadded

\* C7: once a SIGINT or SIGTERM has been received by the select while the
\* loop is running, the loop is stopped, the shutdown notice is printed and
\* the process exits with a non-zero status.
C7_SignalExitsNonZero ==
    (event = "cancel" /\ sends >= 1)
        => /\ pc = "dropped"
           /\ notice \in {"SIGINT", "SIGTERM"}
           /\ proc = "exited"
           /\ exitStatus # 0

\* C8: exactly one of {run_agent returned Ok, run_agent returned Err, a
\* signal was received} ends the process; the step that receives the signal
\* finds run_agent suspended in setup, in a send or in a command execution,
\* drops it without receiving, echoing, parsing or encoding anything, and
\* afterwards no send is issued and no process is started.
C8_CancellationAbandons ==
    /\ [][ event' = "cancel"
           => /\ pc \in {"setup", "send", "exec"} /\ pc' = "dropped"
              /\ notice' \in {"SIGINT", "SIGTERM"}
              /\ result' = "pending" /\ proc' = "exited"
              /\ UNCHANGED loopVars ]_vars
    /\ [][ notice # "" => UNCHANGED loopVars /\ pc' = pc /\ result' = result ]_vars
    /\ [][ proc' = "exited"
           => \/ notice' # "" /\ result' = "pending" /\ pc' = "dropped"
              \/ notice' = "" /\ result' \in {"Ok", "Err"} /\ pc' = "returned" ]_vars

\* a command execution was in flight when the signal was received
C8_Witness ==
    /\ event = "cancel" /\ pc = "dropped" /\ notice = "SIGINT"
    /\ running /\ started /\ Len(executed) = 2 /\ nOutcomes = 1

\* C9: without cancellation, the process ends with run_agent Ok and status
\* 0 only when the last reply received parsed to the STOP directive, and
\* otherwise with run_agent Err (a setup error before the first send; a
\* backend send error or non-UTF-8 command output after it) and a non-zero
\* status.
C9_NormalEndOnlyOnStop ==
    (proc = "exited" /\ notice = "")
        => \/ /\ result = "Ok" /\ exitStatus = 0
              /\ event = "reply" /\ replies = sends /\ replies >= 1
              /\ parse(response).ok
              /\ trim_ascii_end(trim_ascii_start(parse(response).run)) = STOP
           \/ /\ result = "Err" /\ exitStatus # 0
              /\ IF sends = 0 THEN event = "setup_err"
                 ELSE \/ event = "send_err" /\ error = "backend error"
                      \/ event = "exec_output" /\ error = "invalid utf-8 sequence"

C9_Witness ==
    /\ proc = "exited" /\ notice = "" /\ result = "Err" /\ exitStatus = 1
    /\ error = "invalid utf-8 sequence" /\ output.stderr = <<255>>

\* C10: once run_agent has returned (Terminated, Failed) or was dropped, no
\* send is issued, no process is started and nothing of the loop changes.
C10_Absorbing ==
    [][ (result # "pending" \/ pc \in {"returned", "dropped"})
        => /\ UNCHANGED loopVars
           /\ pc' = pc /\ result' = result /\ error' = error ]_vars

C10_Witness ==
    /\ pc = "returned" /\ result = "Ok" /\ proc = "exited"
    /\ sends = 3 /\ Len(executed) = 1 /\ ~running

\* the sends issued whose future has not completed
SendsInFlight == sends - replies - (IF error = "backend error" THEN 1 ELSE 0)

\* the shell processes started whose cmd.output() future has not completed
CommandsExecuting == Len(executed) - waited

\* C11: the loop is strictly sequential: at any time at most one send is in
\* flight and at most one shell command is executing, never both; and a
\* send is awaited only when every started command has finished and every
\* outcome built so far has been encoded, the last one into the message of
\* this send.
C11_StrictlySequential ==
    /\ SendsInFlight \in {0, 1}
    /\ CommandsExecuting \in {0, 1}
    /\ SendsInFlight + CommandsExecuting <= 1
    /\ running => CommandsExecuting = 1 /\ pc \in {"exec", "dropped"}
    /\ pc = "exec" => CommandsExecuting = 1 /\ SendsInFlight = 0
    /\ pc = "send"
        => /\ SendsInFlight = 1 /\ CommandsExecuting = 0 /\ ~running
           /\ nOutcomes = sends - 1 /\ encoded = sends - 1
           /\ sends >= 2 => message = to_string(outcome)

C11_Witness ==
    /\ pc = "send" /\ sends = 3 /\ Len(executed) = 2 /\ waited = 2
    /\ event = "exec_output" /\ message = to_string(outcome)

\* C12: a command that ends with a non-zero exit code is not an error: when
\* its output decodes, the outcome carries the captured stdout and stderr
\* and that exit code, run_agent neither returns nor fails, and the encoded
\* outcome is the message of the next send.
C12_NonZeroExitIsAnOutcome ==
    [][ ( /\ event' = "exec_output"
          /\ output'.code.some /\ output'.code.val # 0
          /\ \A k \in 1..Len(output'.stdout) : output'.stdout[k] < 128
          /\ \A k \in 1..Len(output'.stderr) : output'.stderr[k] < 128 )
        => /\ outcome'.stdout = [k \in 1..Len(output'.stdout) |-> Chr(output'.stdout[k])]
           /\ outcome'.stderr = [k \in 1..Len(output'.stderr) |-> Chr(output'.stderr[k])]
           /\ outcome'.exit_code = output'.code
           /\ nOutcomes' = nOutcomes + 1
           /\ result' = "pending" /\ error' = "" /\ proc' = "running"
           /\ pc' = "send" /\ sends' = sends + 1
           /\ message' = to_string(outcome') ]_vars

C12_Witness ==
    /\ event = "exec_output" /\ output.code = Some(1) /\ pc = "send"
    /\ outcome = CommandOutput(<<>>, <<"h", "i", "\n">>, Some(1))
    /\ message = to_string(outcome) /\ result = "pending" /\ sends = 2

\* C13: every directive the loop executes has a command that is non-empty
\* after trimming: a reply whose command is empty or only whitespace is
\* never started as a shell command.
C13_ExecutedCommandNonEmpty ==
    \A k \in 1..Len(executed) : trim_ascii_end(trim_ascii_start(executed[k])) # <<>>

\* C14: for every well-formed directive document, parse returns the same
\* reasoning and command whatever the wrapping: the bare document, an
\* opening fence only, a closing fence only, or both.  (ParseSpec)
C14_WrappingIrrelevant ==
    pc = "tested"
        => \A d \in Documents, w \in Wraps :
              (from_str(d).ok /\ response = Wrap(w, d))
                  => /\ parsed.ok
                     /\ parsed.thoughts = parse(d).thoughts
                     /\ parsed.run = parse(d).run

\* C19: fence stripping is purely syntactic: when the trimmed reply is
\* already an unfenced well-formed directive, parse yields what
\* deserializing the trimmed text yields.  (ParseSpec)
C19_StrippingIsNoOpOnUnfenced ==
    (pc = "tested" /\ from_str(trim_ascii_end(trim_ascii_start(response))).ok)
        => parsed = from_str(trim_ascii_end(trim_ascii_start(response)))

\* C15: for either backend variant and every message sent, render gives the
\* system prompt, a newline, then the message; the ChatProviders selector
\* gives exactly what the wrapped variant gives; the text send transmits is
\* that rendering; and the system prompt is the same on every turn.
C15_RenderedPromptIsSent ==
    /\ [](sends >= 1
            => /\ ChatProviders_render(backend, system_prompt, message)
                    = system_prompt \o <<"\n">> \o message
               /\ backend = "Ollama"
                    => /\ ChatProviders_render(backend, system_prompt, message)
                            = Ollama_render(system_prompt, message)
                       /\ request = Ollama_send(system_prompt, chat_id, message)
               /\ backend = "OpenRouter"
                    => /\ ChatProviders_render(backend, system_prompt, message)
                            = OpenRouter_render(system_prompt, message)
                       /\ request = OpenRouter_send(system_prompt, message)
               /\ Len(request.messages) = 1
               /\ request.messages[1].content = system_prompt \o <<"\n">> \o message)
    /\ [][sends >= 1 => system_prompt' = system_prompt /\ backend' = backend]_vars

C15_Witness ==
    /\ sends = 2 /\ pc = "send" /\ backend = "Ollama"
    /\ system_prompt = <<"b", "e", "\n">> /\ message = to_string(outcome)
    /\ request.messages[1].content = <<"b", "e", "\n", "\n">> \o message

\* C16: setup errors are fatal before the loop: when setup finds the model
\* name absent from the model list, or the API key absent from the
\* environment, run_agent returns an error, the process exits with a
\* non-zero status, no chat request was sent and no shell command started.
C16_SetupErrorsAreFatal ==
    (setupSeen.listed = "no" \/ setupSeen.key = "absent")
        => /\ pc = "returned" /\ result = "Err"
           /\ error = (IF setupSeen.listed = "no" THEN "model not found"
                        ELSE "OPENROUTER_API_KEY not found in environment")
           /\ proc = "exited" /\ exitStatus # 0
           /\ sends = 0 /\ i = 0 /\ request = NoRequest /\ replies = 0
           /\ executed = <<>> /\ ~running /\ ~started

C16_Witness ==
    /\ setupSeen.command = "OpenRouter" /\ setupSeen.key = "absent"
    /\ event = "setup_err" /\ proc = "exited" /\ exitStatus = 1
    /\ error = "OPENROUTER_API_KEY not found in environment"
    /\ sends = 0 /\ executed = <<>>

\* C17: command output that is not valid UTF-8 is fatal, unlike a parse or
\* spawn failure: in the step where cmd.output() completes with an
\* undecodable stdout or stderr, run_agent returns an error, no outcome is
\* built or encoded and no message is sent; and once it has, the failed
\* turn has left no outcome behind.
C17_NonUtf8OutputIsFatal ==
    /\ [][ ( /\ event' = "exec_output"
              /\ \/ \E k \in 1..Len(output'.stdout) : output'.stdout[k] >= 128
                 \/ \E k \in 1..Len(output'.stderr) : output'.stderr[k] >= 128 )
            => /\ pc' = "returned" /\ result' = "Err"
               /\ error' = "invalid utf-8 sequence"
               /\ proc' = "exited" /\ exitStatus' # 0
               /\ outcome' = outcome /\ nOutcomes' = nOutcomes /\ encoded' = encoded
               /\ message' = message /\ sends' = sends /\ request' = request ]_vars
    /\ [](error = "invalid utf-8 sequence"
            => /\ pc = "returned" /\ sends = i
               /\ nOutcomes = sends - 1 /\ encoded = sends - 1)

C17_Witness ==
    /\ event = "exec_output" /\ error = "invalid utf-8 sequence"
    /\ output.stdout = <<104, 255>> /\ pc = "returned" /\ exitStatus = 1
    /\ sends = 2 /\ nOutcomes = 1 /\ encoded = 1

\* C18: the message of the first send is the template-expanded task text;
\* the message of every later send is exactly the encoding of the previous
\* turn's outcome, its fields stdout, stderr, exit_code in that order, and
\* nothing else; and a turn takes from the one before only that message and
\* the turn counter: the counter goes up by one and the request is the
\* provider's rendering of that message alone.
C18_MessageIsTaskThenOutcome ==
    /\ [](sends = 1
            => message = <<"D", "o", ":", " ", "l", "s", " ", "<", "a", ">", " ", "&", "\n">>)
    /\ [](sends >= 2
            => message =
                 <<"s", "t", "d", "o", "u", "t", ":", " ">>
                 \o YamlString(outcome.stdout) \o <<"\n">>
                 \o <<"s", "t", "d", "e", "r", "r", ":", " ">>
                 \o YamlString(outcome.stderr) \o <<"\n">>
                 \o <<"e", "x", "i", "t", "_", "c", "o", "d", "e", ":", " ">>
                 \o YamlOptInt(outcome.exit_code) \o <<"\n">>)
    /\ [][ sends' # sends
            => /\ sends' = sends + 1 /\ i' = i + 1
               /\ sends >= 1 => nOutcomes' = nOutcomes + 1 /\ encoded' = encoded + 1
               /\ request' = ChatProviders_send(backend', system_prompt', chat_id', message') ]_vars

C18_Witness ==
    /\ sends = 3 /\ i = 3 /\ pc = "send" /\ outcome.exit_code = Some(1)
    /\ message = <<"s", "t", "d", "o", "u", "t", ":", " ", "\"", "\"", "\n",
                   "s", "t", "d", "e", "r", "r", ":", " ", "\"", "h", "i", "\n", "\"", "\n",
                   "e", "x", "i", "t", "_", "c", "o", "d", "e", ":", " ", "1", "\n">>

\* C20: the Ollama provider's session identity is created once, when the
\* provider is constructed, and every send carries that same identity with
\* a single user-role message holding the rendered text; every OpenRouter
\* send carries only the current rendered message as a single user-role
\* message, with no session identity and no earlier message or reply.
C20_SessionIdentity ==
    /\ [](sends >= 1
            => /\ request.messages
                    = << [role |-> "user",
                          content |-> system_prompt \o <<"\n">> \o message] >>
               /\ backend = "Ollama"
                    => chat_id \in ChatIds /\ request.chat_id = chat_id
               /\ backend = "OpenRouter"
                    => chat_id = "none" /\ request.chat_id = "none")
    /\ [][ sends >= 1
            => /\ chat_id' = chat_id
               /\ request'.chat_id = request.chat_id ]_vars

C20_Witness ==
    /\ backend = "Ollama" /\ sends = 3 /\ pc = "send"
    /\ chat_id = "uuid-2" /\ request.chat_id = "uuid-2"
    /\ Len(request.messages) = 1 /\ request.messages[1].role = "user"
    /\ request.messages[1].content = system_prompt \o <<"\n">> \o to_string(outcome)

\* C21: the turn counter is 1 for the first request and goes up by exactly
\* one per request sent: it always equals the number of sends issued, the
\* reply it labels is the reply of that send, and a turn that ends in a
\* parse failure or a spawn failure is followed by the next value, none
\* skipped and none repeated.
C21_TurnCounterCountsSends ==
    /\ [](i = sends /\ replies <= i /\ echoed = replies)
    /\ [](sends >= 1 => i >= 1)
    /\ [][ sends' # sends => sends' = sends + 1 /\ i' = i + 1 ]_vars
    /\ [][ i' # i => sends' = sends + 1 /\ i' = i + 1 ]_vars
    /\ [][ replies' # replies => replies' = i ]_vars
    /\ [][ ( (replies' = replies + 1 /\ ~parse(response').ok)
              \/ event' \in {"reply_spawn_err", "exec_err"} )
            => i' = i + 1 /\ sends' = sends + 1 /\ pc' = "send" ]_vars

C21_Witness ==
    /\ i = 3 /\ sends = 3 /\ replies = 2 /\ pc = "send"
    /\ ~parse(response).ok /\ event = "reply"
    /\ outcome.stdout = ErrorParsingResponse

\* C22: a shell process is started only in the step that receives a reply
\* which parses to a command that is not STOP after trimming, that command
\* is the one started, and no process was started in that turn before; the
\* number of processes started never exceeds the number of replies
\* received; and a reply that does not parse, a STOP reply and a failed
\* send start none.
C22_ProcessOnlyForParsedCommand ==
    /\ [](Len(executed) <= replies /\ replies <= sends)
    /\ [][ (executed' # executed \/ replies' # replies \/ event' = "send_err")
            => LET r == parsed'
                   command == r.ok /\ trim_ascii_end(trim_ascii_start(r.run)) # STOP
               IN /\ replies' # replies => r = parse(response')
                  /\ executed' # executed
                       => /\ replies' = replies + 1
                          /\ command
                          /\ executed' = Append(executed, r.run)
                          /\ ~started /\ started'
                  /\ (event' = "send_err" \/ (replies' = replies + 1 /\ ~command))
                       => executed' = executed /\ ~running' /\ waited' = waited ]_vars

C22_Witness ==
    /\ Len(executed) = 1 /\ replies = 3 /\ sends = 3 /\ pc = "returned"
    /\ result = "Ok" /\ executed[1] = Ls /\ waited = 1

=============================================================================
